---------------------------- MODULE Spec2Model ----------------------------
(***************************************************************************)
(* Model of the Muzloto questionnaire scanner (core/muzloto_scanner.cpp):  *)
(* the MuzlotoScanner life cycle behind the C interface, the form parser,  *)
(* the answer normalizers and the JSON assembly of muzloto_scan_image.     *)
(*                                                                         *)
(* A std::string is modelled as what it is: a sequence of bytes (0..255).  *)
(* Text is written below as sequences of Unicode code points and turned    *)
(* into bytes by Utf8, the encoding of the source file's literals and of   *)
(* the text the OCR engine returns.                                        *)
(***************************************************************************)
EXTENDS Integers, Sequences, FiniteSets

VARIABLES
    alive,        \* a scanner instance exists (muzloto_create .. muzloto_destroy)
    initialized,  \* MuzlotoScanner::initialized
    everInit,     \* history: an initialize call on this instance returned true
    page,         \* code points of the text the OCR engine recognizes in the image
    lastOp,       \* the C-interface call that ran last
    calls,        \* collaborator calls made by the last call, in order
    returned,     \* int returned by the last muzloto_initialize
    result,       \* ScanResult returned by the last scan_image
    json,         \* JSON document returned by the last muzloto_scan_image
    text,         \* code points of an answer text handed to a normalizer
    norm,         \* the normalizer applied to text and how many times it ran
    once,         \* the normalizer's output on text
    twice         \* the normalizer's output on its own output

vars == <<alive, initialized, everInit, page, lastOp, calls, returned, result,
          json, text, norm, once, twice>>

---------------------------------------------------------------------------
(* Bounds of the model.                                                    *)

\* lines per recognized page
MaxLines == 3
\* tokens per answer text
MaxTokens == 2
\* page lengths tried on either side of the raw_text limit
Slack == 2

\* j["raw_text"] = result.raw_text.substr(0, 500)
RawTextLimit == 500

---------------------------------------------------------------------------
(* Strings.                                                                *)

Min(S) == CHOOSE x \in S : \A y \in S : x <= y

\* UTF-8 encoding of one code point (up to U+FFFF)
Utf8Char(cp) ==
    IF cp < 128 THEN <<cp>>
    ELSE IF cp < 2048 THEN <<192 + (cp \div 64), 128 + (cp % 64)>>
    ELSE <<224 + (cp \div 4096), 128 + ((cp \div 64) % 64), 128 + (cp % 64)>>

\* UTF-8 encoding of a text
RECURSIVE Utf8(_)
Utf8(cps) ==
    IF Len(cps) = 0 THEN <<>>
    ELSE IF Len(cps) = 1 THEN Utf8Char(cps[1])
    ELSE LET h == Len(cps) \div 2
         IN  Utf8(SubSeq(cps, 1, h)) \o Utf8(SubSeq(cps, h + 1, Len(cps)))

\* s.find(p) != std::string::npos
Contains(s, p) ==
    \E i \in 1..(Len(s) - Len(p) + 1) :
        \A k \in 1..Len(p) : s[i + k - 1] = p[k]

\* std::tolower on one unsigned char (the "C" locale: only A-Z change)
tolower(c) == IF c \in 65..90 THEN c + 32 ELSE c

\* std::transform(..., tolower) over the bytes of a string
lower(s) == [i \in 1..Len(s) |-> tolower(s[i])]

\* std::isdigit and the regex class \d
Digit == 48..57

\* the regex class \s: space, \t, \n, \v, \f, \r
Space == {32} \cup (9..13)

---------------------------------------------------------------------------
(* String literals of the source, as code points.                          *)

\* "Сканер не инициализирован"
MsgNotInitialized ==
    <<1057, 1082, 1072, 1085, 1077, 1088, 32, 1085, 1077, 32, 1080, 1085,
    1080, 1094, 1080, 1072, 1083, 1080, 1079, 1080, 1088, 1086, 1074, 1072,
    1085>>

\* "Не удалось загрузить изображение: "
MsgLoadFailed ==
    <<1053, 1077, 32, 1091, 1076, 1072, 1083, 1086, 1089, 1100, 32, 1079,
    1072, 1075, 1088, 1091, 1079, 1080, 1090, 1100, 32, 1080, 1079, 1086,
    1073, 1088, 1072, 1078, 1077, 1085, 1080, 1077, 58, 32>>

\* "C++ exception: "
MsgCxxException ==
    <<67, 43, 43, 32, 101, 120, 99, 101, 112, 116, 105, 111, 110, 58, 32>>

\* "OpenCV: error in function cvtColor"  (what() of an exception a collaborator throws)
MsgLibrary ==
    <<79, 112, 101, 110, 67, 86, 58, 32, 101, 114, 114, 111, 114, 32, 105,
    110, 32, 102, 117, 110, 99, 116, 105, 111, 110, 32, 99, 118, 116, 67, 111,
    108, 111, 114>>

\* "[json.exception.type_error.316] invalid UTF-8 byte"  (what() of the exception dump() throws)
MsgTypeError ==
    <<91, 106, 115, 111, 110, 46, 101, 120, 99, 101, 112, 116, 105, 111, 110,
    46, 116, 121, 112, 101, 95, 101, 114, 114, 111, 114, 46, 51, 49, 54, 93,
    32, 105, 110, 118, 97, 108, 105, 100, 32, 85, 84, 70, 45, 56, 32, 98, 121,
    116, 101>>

\* "form.jpg"
P_form_jpg == <<102, 111, 114, 109, 46, 106, 112, 103>>

\* "да"
L_da == <<1076, 1072>>

\* "yes"
L_yes == <<121, 101, 115>>

\* "✓"
L_check == <<10003>>

\* "+"
L_plus == <<43>>

\* "v"
L_v == <<118>>

\* "x"
L_x == <<120>>

\* "нет"
L_net == <<1085, 1077, 1090>>

\* "no"
L_no == <<110, 111>>

\* "Да"
L_Da == <<1044, 1072>>

\* "Нет"
L_Net == <<1053, 1077, 1090>>

\* "можно смело ставить дороже"
L_price_higher ==
    <<1084, 1086, 1078, 1085, 1086, 32, 1089, 1084, 1077, 1083, 1086, 32,
    1089, 1090, 1072, 1074, 1080, 1090, 1100, 32, 1076, 1086, 1088, 1086,
    1078, 1077>>

\* "дороже"
L_dorozhe == <<1076, 1086, 1088, 1086, 1078, 1077>>

\* "доступно"
L_dostupno == <<1076, 1086, 1089, 1090, 1091, 1087, 1085, 1086>>

\* "дорого"
L_dorogo == <<1076, 1086, 1088, 1086, 1075, 1086>>

---------------------------------------------------------------------------
(* Texts the inputs are made of: answer tokens (T), documented examples    *)
(* (X), answer lines (A) and the pieces of phone-like texts (P).           *)

\* "Да"
T_Da == <<1044, 1072>>

\* "да"
T_da == <<1076, 1072>>

\* ", конечно"
T_konechno == <<44, 32, 1082, 1086, 1085, 1077, 1095, 1085, 1086>>

\* "Нет"
T_Net == <<1053, 1077, 1090>>

\* "нет"
T_net == <<1085, 1077, 1090>>

\* ", не знаю"
T_ne_znayu == <<44, 32, 1085, 1077, 32, 1079, 1085, 1072, 1102>>

\* "Может быть"
T_mozhet == <<1052, 1086, 1078, 1077, 1090, 32, 1073, 1099, 1090, 1100>>

\* "YES"
T_YES == <<89, 69, 83>>

\* "No"
T_No == <<78, 111>>

\* "✓"
T_check == <<10003>>

\* "+"
T_plus == <<43>>

\* "X"
T_X == <<88>>

\* "7"
T_7 == <<55>>

\* " баллов"
T_ballov == <<32, 1073, 1072, 1083, 1083, 1086, 1074>>

\* "10"
T_10 == <<49, 48>>

\* "0"
T_0 == <<48>>

\* "Дороже"
T_Dorozhe == <<1044, 1086, 1088, 1086, 1078, 1077>>

\* "доступно"
T_dostupno == <<1076, 1086, 1089, 1090, 1091, 1087, 1085, 1086>>

\* "дорого"
T_dorogo == <<1076, 1086, 1088, 1086, 1075, 1086>>

\* "8 916 123 45 67"
X_phone_8 == <<56, 32, 57, 49, 54, 32, 49, 50, 51, 32, 52, 53, 32, 54, 55>>

\* "+7(916)123-45-67"
X_phone_plus7 ==
    <<43, 55, 40, 57, 49, 54, 41, 49, 50, 51, 45, 52, 53, 45, 54, 55>>

\* "+79161234567"
X_phone_norm == <<43, 55, 57, 49, 54, 49, 50, 51, 52, 53, 54, 55>>

\* "нет телефона"
X_no_digits ==
    <<1085, 1077, 1090, 32, 1090, 1077, 1083, 1077, 1092, 1086, 1085, 1072>>

\* "Да, конечно"
X_da_konechno ==
    <<1044, 1072, 44, 32, 1082, 1086, 1085, 1077, 1095, 1085, 1086>>

\* "Нет, не знаю"
X_net_ne_znayu ==
    <<1053, 1077, 1090, 44, 32, 1085, 1077, 32, 1079, 1085, 1072, 1102>>

\* "7 баллов"
X_7_ballov == <<55, 32, 1073, 1072, 1083, 1083, 1086, 1074>>

\* "12.05.2024"
A_date == <<49, 50, 46, 48, 53, 46, 50, 48, 50, 52>>

\* "14"
A_14 == <<49, 52>>

\* "+7"
P_plus7 == <<43, 55>>

\* "8"
P_8 == <<56>>

\* "7"
P_7 == <<55>>

\* "т.8"
P_t_8 == <<1090, 46, 56>>

\* "("
P_open == <<40>>

\* ")"
P_close == <<41>>

\* " "
P_space == <<32>>

\* "-"
P_dash == <<45>>

\* "- "
P_dash_space == <<45, 32>>

\* "."
P_dot == <<46>>

\* "916"
P_916 == <<57, 49, 54>>

\* "91"
P_91 == <<57, 49>>

\* "123"
P_123 == <<49, 50, 51>>

\* "45"
P_45 == <<52, 53>>

\* "67"
P_67 == <<54, 55>>

\* "6"
P_6 == <<54>>

\* "0"
P_0 == <<48>>

---------------------------------------------------------------------------
(* The question labels of field_mapping.                                   *)

\* "Дата:"
Q_date == <<1044, 1072, 1090, 1072, 58>>

\* "Номер столика:"
Q_table_number ==
    <<1053, 1086, 1084, 1077, 1088, 32, 1089, 1090, 1086, 1083, 1080, 1082,
    1072, 58>>

\* "Место игры:"
Q_location == <<1052, 1077, 1089, 1090, 1086, 32, 1080, 1075, 1088, 1099, 58>>

\* "Довольны ли вы посещением Музлото?"
Q_satisfaction_rating ==
    <<1044, 1086, 1074, 1086, 1083, 1100, 1085, 1099, 32, 1083, 1080, 32,
    1074, 1099, 32, 1087, 1086, 1089, 1077, 1097, 1077, 1085, 1080, 1077,
    1084, 32, 1052, 1091, 1079, 1083, 1086, 1090, 1086, 63>>

\* "Понравился ли вам плейлист?"
Q_playlist_rating ==
    <<1055, 1086, 1085, 1088, 1072, 1074, 1080, 1083, 1089, 1103, 32, 1083,
    1080, 32, 1074, 1072, 1084, 32, 1087, 1083, 1077, 1081, 1083, 1080, 1089,
    1090, 63>>

\* "Какие треки вы бы добавили?"
Q_tracks_to_add ==
    <<1050, 1072, 1082, 1080, 1077, 32, 1090, 1088, 1077, 1082, 1080, 32,
    1074, 1099, 32, 1073, 1099, 32, 1076, 1086, 1073, 1072, 1074, 1080, 1083,
    1080, 63>>

\* "Понравилась ли вам локация?"
Q_location_rating ==
    <<1055, 1086, 1085, 1088, 1072, 1074, 1080, 1083, 1072, 1089, 1100, 32,
    1083, 1080, 32, 1074, 1072, 1084, 32, 1083, 1086, 1082, 1072, 1094, 1080,
    1103, 63>>

\* "Понравилась ли вам кухня и бар?"
Q_kitchen_rating ==
    <<1055, 1086, 1085, 1088, 1072, 1074, 1080, 1083, 1072, 1089, 1100, 32,
    1083, 1080, 32, 1074, 1072, 1084, 32, 1082, 1091, 1093, 1085, 1103, 32,
    1080, 32, 1073, 1072, 1088, 63>>

\* "Устроил ли вас сервис, время подачи?"
Q_service_rating ==
    <<1059, 1089, 1090, 1088, 1086, 1080, 1083, 32, 1083, 1080, 32, 1074,
    1072, 1089, 32, 1089, 1077, 1088, 1074, 1080, 1089, 44, 32, 1074, 1088,
    1077, 1084, 1103, 32, 1087, 1086, 1076, 1072, 1095, 1080, 63>>

\* "Понравилась ли вам работа ведущего?"
Q_host_rating ==
    <<1055, 1086, 1085, 1088, 1072, 1074, 1080, 1083, 1072, 1089, 1100, 32,
    1083, 1080, 32, 1074, 1072, 1084, 32, 1088, 1072, 1073, 1086, 1090, 1072,
    32, 1074, 1077, 1076, 1091, 1097, 1077, 1075, 1086, 63>>

\* "Сколько раз вы были на Музлото?"
Q_visits_count ==
    <<1057, 1082, 1086, 1083, 1100, 1082, 1086, 32, 1088, 1072, 1079, 32,
    1074, 1099, 32, 1073, 1099, 1083, 1080, 32, 1085, 1072, 32, 1052, 1091,
    1079, 1083, 1086, 1090, 1086, 63>>

\* "Оцените стоимость игры за билет"
Q_ticket_price ==
    <<1054, 1094, 1077, 1085, 1080, 1090, 1077, 32, 1089, 1090, 1086, 1080,
    1084, 1086, 1089, 1090, 1100, 32, 1080, 1075, 1088, 1099, 32, 1079, 1072,
    32, 1073, 1080, 1083, 1077, 1090>>

\* "Знаете ли вы, что Музлото можно заказать на корпоратив или день рождения"
Q_know_booking ==
    <<1047, 1085, 1072, 1077, 1090, 1077, 32, 1083, 1080, 32, 1074, 1099, 44,
    32, 1095, 1090, 1086, 32, 1052, 1091, 1079, 1083, 1086, 1090, 1086, 32,
    1084, 1086, 1078, 1085, 1086, 32, 1079, 1072, 1082, 1072, 1079, 1072,
    1090, 1100, 32, 1085, 1072, 32, 1082, 1086, 1088, 1087, 1086, 1088, 1072,
    1090, 1080, 1074, 32, 1080, 1083, 1080, 32, 1076, 1077, 1085, 1100, 32,
    1088, 1086, 1078, 1076, 1077, 1085, 1080, 1103>>

\* "Откуда вы о нас узнали?"
Q_source_info ==
    <<1054, 1090, 1082, 1091, 1076, 1072, 32, 1074, 1099, 32, 1086, 32, 1085,
    1072, 1089, 32, 1091, 1079, 1085, 1072, 1083, 1080, 63>>

\* "Ради чего вы обычно ходите на подобные вечеринки?"
Q_purpose ==
    <<1056, 1072, 1076, 1080, 32, 1095, 1077, 1075, 1086, 32, 1074, 1099, 32,
    1086, 1073, 1099, 1095, 1085, 1086, 32, 1093, 1086, 1076, 1080, 1090,
    1077, 32, 1085, 1072, 32, 1087, 1086, 1076, 1086, 1073, 1085, 1099, 1077,
    32, 1074, 1077, 1095, 1077, 1088, 1080, 1085, 1082, 1080, 63>>

\* "Что нам стоит улучшить?"
Q_improvements ==
    <<1063, 1090, 1086, 32, 1085, 1072, 1084, 32, 1089, 1090, 1086, 1080,
    1090, 32, 1091, 1083, 1091, 1095, 1096, 1080, 1090, 1100, 63>>

\* "Если вы хотите, чтобы мы с вами связались - оставьте ваш номер телефона."
Q_phone_number ==
    <<1045, 1089, 1083, 1080, 32, 1074, 1099, 32, 1093, 1086, 1090, 1080,
    1090, 1077, 44, 32, 1095, 1090, 1086, 1073, 1099, 32, 1084, 1099, 32,
    1089, 32, 1074, 1072, 1084, 1080, 32, 1089, 1074, 1103, 1079, 1072, 1083,
    1080, 1089, 1100, 32, 45, 32, 1086, 1089, 1090, 1072, 1074, 1100, 1090,
    1077, 32, 1074, 1072, 1096, 32, 1085, 1086, 1084, 1077, 1088, 32, 1090,
    1077, 1083, 1077, 1092, 1086, 1085, 1072, 46>>

field_mapping ==
    << [question |-> Utf8(Q_date), field_id |-> "date"],
       [question |-> Utf8(Q_table_number), field_id |-> "table_number"],
       [question |-> Utf8(Q_location), field_id |-> "location"],
       [question |-> Utf8(Q_satisfaction_rating), field_id |-> "satisfaction_rating"],
       [question |-> Utf8(Q_playlist_rating), field_id |-> "playlist_rating"],
       [question |-> Utf8(Q_tracks_to_add), field_id |-> "tracks_to_add"],
       [question |-> Utf8(Q_location_rating), field_id |-> "location_rating"],
       [question |-> Utf8(Q_kitchen_rating), field_id |-> "kitchen_rating"],
       [question |-> Utf8(Q_service_rating), field_id |-> "service_rating"],
       [question |-> Utf8(Q_host_rating), field_id |-> "host_rating"],
       [question |-> Utf8(Q_visits_count), field_id |-> "visits_count"],
       [question |-> Utf8(Q_ticket_price), field_id |-> "ticket_price"],
       [question |-> Utf8(Q_know_booking), field_id |-> "know_booking"],
       [question |-> Utf8(Q_source_info), field_id |-> "source_info"],
       [question |-> Utf8(Q_purpose), field_id |-> "purpose"],
       [question |-> Utf8(Q_improvements), field_id |-> "improvements"],
       [question |-> Utf8(Q_phone_number), field_id |-> "phone_number"] >>

---------------------------------------------------------------------------
(* std::regex (ECMAScript): a pattern is a sequence of nodes, each an      *)
(* ordered alternation of character-class sequences, possibly optional.    *)

Class(S) == [alts |-> << <<S>> >>, opt |-> FALSE]
Opt(S) == [alts |-> << <<S>> >>, opt |-> TRUE]

\* faulty variant of rating_regex: the alternatives the other way round, R"(([1-9]|10))"
rating_regex_digit_first ==
    << [alts |-> << <<49..57>>, <<{49}, {48}>> >>, opt |-> FALSE] >>

\* R"((10|[1-9]))"
rating_regex == << [alts |-> << <<{49}, {48}>>, <<49..57>> >>, opt |-> FALSE] >>

\* R"((\+7|8)[\s\-\(]?(\d{3})[\s\-\)]?(\d{3})[\s\-]?(\d{2})[\s\-]?(\d{2}))"
phone_regex ==
    << [alts |-> << <<{43}, {55}>>, <<{56}>> >>, opt |-> FALSE],
       Opt(Space \cup {45, 40}), Class(Digit), Class(Digit), Class(Digit),
       Opt(Space \cup {45, 41}), Class(Digit), Class(Digit), Class(Digit),
       Opt(Space \cup {45}), Class(Digit), Class(Digit),
       Opt(Space \cup {45}), Class(Digit), Class(Digit) >>

\* Backtracking match of nodes k.. of re at position pos of s: the position
\* after the match the matcher finds first, or 0 when there is none.
RECURSIVE MatchHere(_, _, _, _)
MatchHere(re, k, s, pos) ==
    IF k > Len(re) THEN pos
    ELSE LET node == re[k]
             AltEnd(a) ==
                 IF /\ pos + Len(a) - 1 <= Len(s)
                    /\ \A m \in 1..Len(a) : s[pos + m - 1] \in a[m]
                 THEN MatchHere(re, k + 1, s, pos + Len(a))
                 ELSE 0
             RECURSIVE TryAlts(_)
             TryAlts(n) ==
                 IF n > Len(node.alts)
                 THEN IF node.opt THEN MatchHere(re, k + 1, s, pos) ELSE 0
                 ELSE LET e == AltEnd(node.alts[n])
                      IN  IF e # 0 THEN e ELSE TryAlts(n + 1)
         IN  TryAlts(1)

\* std::regex_search(s, match, re): the leftmost match; str is match.str()
regex_search(s, re) ==
    LET starts == {p \in 1..(Len(s) + 1) : MatchHere(re, 1, s, p) # 0}
    IN  IF starts = {} THEN [found |-> FALSE, str |-> <<>>]
        ELSE LET p == Min(starts)
             IN  [found |-> TRUE,
                  str |-> SubSeq(s, p, MatchHere(re, 1, s, p) - 1)]

---------------------------------------------------------------------------
(* Answer normalizers.                                                     *)

extract_rating(t) ==
    IF t = <<>> THEN <<>>
    ELSE LET match == regex_search(t, rating_regex)
         IN  IF match.found THEN match.str ELSE t

extract_ticket_price(t) ==
    IF t = <<>> THEN <<>>
    ELSE LET lower_text == lower(t)
         IN  IF \/ Contains(lower_text, Utf8(L_price_higher))
                \/ Contains(lower_text, Utf8(L_dorozhe))
             THEN Utf8(L_price_higher)
             ELSE IF Contains(lower_text, Utf8(L_dostupno)) THEN Utf8(L_dostupno)
             ELSE IF Contains(lower_text, Utf8(L_dorogo)) THEN Utf8(L_dorogo)
             ELSE t

extract_yes_no(t) ==
    IF t = <<>> THEN <<>>
    ELSE LET lower_text == lower(t)
         IN  IF \/ Contains(lower_text, Utf8(L_da))
                \/ Contains(lower_text, Utf8(L_yes))
                \/ Contains(lower_text, Utf8(L_check))
                \/ Contains(lower_text, Utf8(L_plus))
                \/ Contains(lower_text, Utf8(L_v))
                \/ Contains(lower_text, Utf8(L_x))
             THEN Utf8(L_Da)
             ELSE IF \/ Contains(lower_text, Utf8(L_net))
                     \/ Contains(lower_text, Utf8(L_no))
             THEN Utf8(L_Net)
             ELSE t

\* faulty variant of extract_phone_number: the text itself when no number
\* is found, as the other normalizers return it
extract_phone_number_or_text(t) ==
    IF t = <<>> THEN <<>>
    ELSE LET match == regex_search(t, phone_regex)
         IN  IF match.found THEN match.str ELSE t

extract_phone_number(t) ==
    IF t = <<>> THEN <<>>
    ELSE LET match == regex_search(t, phone_regex)
         IN  IF match.found THEN match.str ELSE <<>>

\* faulty variant of normalize_phone: a leading 8 is not replaced
normalize_phone_keeps_8(phone) ==
    LET IsKept(c) == c \in Digit \/ c = 43
        normalized == SelectSeq(phone, IsKept)
    IN  IF normalized = <<>> THEN normalized
        ELSE IF SubSeq(normalized, 1, Min({2, Len(normalized)})) # <<43, 55>>
             THEN <<43, 55>> \o normalized
        ELSE normalized

normalize_phone(phone) ==
    LET IsKept(c) == c \in Digit \/ c = 43
        normalized == SelectSeq(phone, IsKept)
    IN  IF normalized = <<>> THEN normalized
        ELSE IF normalized[1] = 56
             THEN <<43>> \o [normalized EXCEPT ![1] = 55]
        ELSE IF SubSeq(normalized, 1, Min({2, Len(normalized)})) # <<43, 55>>
             THEN <<43, 55>> \o normalized
        ELSE normalized

\* extract_answers: the phone number found by the parser is normalized
extract_answers(r) ==
    IF r.phone_number # <<>>
    THEN [r EXCEPT !.phone_number = normalize_phone(r.phone_number)]
    ELSE r

---------------------------------------------------------------------------
(* Form parser.                                                            *)

FieldIds == {field_mapping[m].field_id : m \in 1..Len(field_mapping)}

RatingIds == {"satisfaction_rating", "playlist_rating", "location_rating",
              "kitchen_rating", "service_rating", "host_rating"}

\* std::getline over the text: the pieces between '\n' bytes
RECURSIVE getline(_)
getline(s) ==
    IF s = <<>> THEN <<>>
    ELSE LET nl == {i \in 1..Len(s) : s[i] = 10}
         IN  IF nl = {} THEN <<s>>
             ELSE <<SubSeq(s, 1, Min(nl) - 1)>>
                      \o getline(SubSeq(s, Min(nl) + 1, Len(s)))

\* the lines vector: '\n' and '\r' erased from each piece, empty pieces dropped
GetLines(raw_text) ==
    LET IsKept(c) == c # 10 /\ c # 13
        Clean(l) == SelectSeq(l, IsKept)
        pieces == getline(raw_text)
        cleaned == [k \in 1..Len(pieces) |-> Clean(pieces[k])]
        NonEmpty(l) == l # <<>>
    IN  SelectSeq(cleaned, NonEmpty)

\* index in field_mapping of the first label the line contains, or 0
MatchLabel(line) ==
    LET ms == {m \in 1..Len(field_mapping) :
                  Contains(line, field_mapping[m].question)}
    IN  IF ms = {} THEN 0 ELSE Min(ms)

\* is_next_question
is_next_question(line) == MatchLabel(line) # 0

\* The inner loop over j: the first line after i that is not empty and holds
\* no label, or 0 when the text ends first. A line that holds a label is
\* passed over and the search goes on behind it.
AnswerLine(lines, i) ==
    LET js == {j \in (i + 1)..Len(lines) :
                  lines[j] # <<>> /\ ~is_next_question(lines[j])}
    IN  IF js = {} THEN 0 ELSE Min(js)

\* The loop over i, from line i on, with the fields and answers so far.
RECURSIVE ParseLoop(_, _, _, _)
ParseLoop(lines, i, fields, answers) ==
    IF i > Len(lines) THEN [fields |-> fields, answers |-> answers]
    ELSE LET m == MatchLabel(lines[i])
         IN  IF m = 0 THEN ParseLoop(lines, i + 1, fields, answers)
             ELSE LET j == AnswerLine(lines, i)
                      answer_value == IF j = 0 THEN <<>> ELSE lines[j]
                      field == [name |-> field_mapping[m].question,
                                value |-> answer_value,
                                confidence |-> "0.9"]
                  IN  ParseLoop(lines, (IF j = 0 THEN i ELSE j) + 1,
                                Append(fields, field),
                                [answers EXCEPT
                                    ![field_mapping[m].field_id] = answer_value])

\* the normalizer parse_muzloto_form applies to the answer of a field
Normalize(field_id, answer) ==
    IF field_id \in RatingIds THEN extract_rating(answer)
    ELSE IF field_id = "ticket_price" THEN extract_ticket_price(answer)
    ELSE IF field_id = "know_booking" THEN extract_yes_no(answer)
    ELSE IF field_id = "phone_number" THEN extract_phone_number(answer)
    ELSE answer

\* parse_muzloto_form: r.raw_text is set, the fields list and the typed
\* fields are filled in
parse_muzloto_form(r) ==
    LET parsed == ParseLoop(GetLines(r.raw_text), 1, <<>>,
                            [f \in FieldIds |-> <<>>])
    IN  [k \in DOMAIN r |->
            IF k = "fields" THEN parsed.fields
            ELSE IF k \in FieldIds THEN Normalize(k, parsed.answers[k])
            ELSE r[k]]

---------------------------------------------------------------------------
(* scan_image.                                                             *)

\* a default-constructed ScanResult with the success flag as given
NewResult(success) ==
    [k \in FieldIds \cup {"success", "error_message", "fields", "raw_text",
                          "processing_time_ms"} |->
        IF k = "success" THEN success
        ELSE IF k = "processing_time_ms" THEN "elapsed"
        ELSE <<>>]

\* faulty variant of Caught: the catch block forgets the message
Caught_without_message(r, what) == [r EXCEPT !.success = FALSE]

\* catch (const std::exception &e) in scan_image
Caught(r, what) == [r EXCEPT !.success = FALSE, !.error_message = what]

\* what imread / preprocess_image / the OCR engine can do on one call
Outcomes == {"imread_empty", "preprocess_throws", "ocr_throws", "ocr_null",
             "ocr_text"}

\* the collaborator calls scan_image makes before the outcome shows
CallsUpTo(outcome) ==
    IF outcome = "imread_empty" THEN <<"imread">>
    ELSE IF outcome = "preprocess_throws" THEN <<"imread", "preprocess_image">>
    ELSE <<"imread", "preprocess_image", "SetImage", "GetUTF8Text">>

\* scan_image on a scanner whose flag is isInit, for image_path, when the
\* collaborators behave as outcome says and the OCR text is ocr_text
scan_image(isInit, image_path, outcome, ocr_text) ==
    IF ~isInit
    THEN [result |-> Caught(NewResult(FALSE), Utf8(MsgNotInitialized)),
          calls |-> <<>>]
    ELSE IF outcome = "imread_empty"
    THEN [result |-> Caught(NewResult(FALSE), Utf8(MsgLoadFailed) \o image_path),
          calls |-> CallsUpTo(outcome)]
    ELSE IF outcome \in {"preprocess_throws", "ocr_throws"}
    THEN [result |-> Caught(NewResult(FALSE), Utf8(MsgLibrary)),
          calls |-> CallsUpTo(outcome)]
    ELSE LET raw == IF outcome = "ocr_null" THEN <<>> ELSE ocr_text
             r == [NewResult(TRUE) EXCEPT !.raw_text = raw]
         IN  [result |-> extract_answers(parse_muzloto_form(r)),
              calls |-> CallsUpTo(outcome)]

---------------------------------------------------------------------------
(* muzloto_scan_image: the JSON document.                                  *)

\* std::string::substr(0, n): the first n bytes
substr0(s, n) == SubSeq(s, 1, IF Len(s) < n THEN Len(s) ELSE n)

\* The UTF-8 check json::dump makes on every string it writes: each lead
\* byte is followed by its continuation bytes, each continuation byte
\* belongs to a lead byte.
ValidUtf8(s) ==
    LET IsCont(i) == s[i] \in 128..191
        Need(i) == IF s[i] \in 194..223 THEN 1
                   ELSE IF s[i] \in 224..239 THEN 2
                   ELSE IF s[i] \in 240..244 THEN 3
                   ELSE 0
    IN  \A i \in 1..Len(s) :
            /\ s[i] \in (0..191) \cup (194..244)
            /\ Need(i) > 0 =>
                   /\ i + Need(i) <= Len(s)
                   /\ \A d \in 1..Need(i) : IsCont(i + d)
            /\ IsCont(i) =>
                   \E d \in 1..3 :
                       /\ i - d >= 1
                       /\ Need(i - d) >= d
                       /\ \A e \in 1..(d - 1) : IsCont(i - e)

\* the document built from a ScanResult
ResultJson(r) ==
    [k \in (DOMAIN r) |->
        IF k = "raw_text" THEN substr0(r.raw_text, RawTextLimit) ELSE r[k]]

\* every string of the document
JsonStrings(j) ==
    {j[k] : k \in FieldIds \cup {"error_message", "raw_text"}}
        \cup {j.fields[n].name : n \in 1..Len(j.fields)}
        \cup {j.fields[n].value : n \in 1..Len(j.fields)}

\* the document of the catch block of muzloto_scan_image
error_json(what) ==
    [success |-> FALSE, error_message |-> Utf8(MsgCxxException) \o what,
     processing_time_ms |-> "0.0"]

\* muzloto_scan_image around the ScanResult r; dump_checks says whether
\* the JSON library of the build rejects invalid UTF-8 in dump()
muzloto_scan_image_json(r, dump_checks) ==
    LET j == ResultJson(r)
    IN  IF dump_checks /\ \E s \in JsonStrings(j) : ~ValidUtf8(s)
        THEN error_json(Utf8(MsgTypeError))
        ELSE j

---------------------------------------------------------------------------
(* Inputs.                                                                 *)

\* all sequences of at most n elements of S
SeqsUpTo(S, n) == UNION {[1..k -> S] : k \in 0..n}

RECURSIVE Concat(_)
Concat(ss) == IF ss = <<>> THEN <<>> ELSE Head(ss) \o Concat(Tail(ss))

\* the lines a recognized form is made of
LineTokens == {Q_date, A_date, Q_table_number, A_14, Q_playlist_rating,
               <<13>>}

\* a page of lines, each ended by '\n'
PageOf(ls) == Concat([k \in 1..Len(ls) |-> ls[k] \o <<10>>])

\* the two forms of the parser's documentation, the first also with a blank
\* line before the second question
ExamplePages ==
    {PageOf(<<Q_date, A_date, Q_table_number, A_14>>),
     PageOf(<<Q_date, A_date, <<13>>, Q_table_number, A_14>>),
     PageOf(<<Q_date, Q_table_number, A_14>>)}

FormPages ==
    {PageOf(ls) : ls \in SeqsUpTo(LineTokens, MaxLines)} \cup ExamplePages

\* n times the character cp
Rep(cp, n) == [i \in 1..n |-> cp]

\* pages about as long as the raw_text limit, in characters and in bytes:
\* Latin text, Cyrillic text, and Cyrillic text behind one Latin letter
LongPages ==
    UNION {{Rep(97, RawTextLimit - 1 + d),
            Rep(1073, (RawTextLimit \div 2) - 1 + d),
            <<97>> \o Rep(1073, (RawTextLimit \div 2) - 1 + d),
            Rep(1073, RawTextLimit - 1 + d)} : d \in 0..Slack}

Pages == FormPages \cup LongPages

\* image paths handed to muzloto_scan_image (NULL becomes "")
Paths == {<<>>, Utf8(P_form_jpg)}

---------------------------------------------------------------------------
(* The scanner behind the C interface.                                     *)

NoResult == [none |-> TRUE]

\* no normalizer has run
NotApplied == [fn |-> "none", times |-> 0]

Init ==
    /\ alive = TRUE
    /\ initialized = FALSE
    /\ everInit = FALSE
    /\ page \in Pages
    /\ lastOp = "muzloto_create"
    /\ calls = <<>>
    /\ returned = NoResult
    /\ result = NoResult
    /\ json = NoResult
    /\ text = <<>>
    /\ norm = NotApplied
    /\ once = <<>>
    /\ twice = <<>>

\* muzloto_create: a new scanner, not initialized
muzloto_create ==
    /\ ~alive
    /\ alive' = TRUE
    /\ initialized' = FALSE
    /\ everInit' = FALSE
    /\ lastOp' = "muzloto_create"
    /\ calls' = <<>>
    /\ returned' = NoResult
    /\ result' = NoResult
    /\ json' = NoResult
    /\ UNCHANGED <<page, text, norm, once, twice>>

\* muzloto_destroy
muzloto_destroy ==
    /\ alive
    /\ alive' = FALSE
    /\ lastOp' = "muzloto_destroy"
    /\ calls' = <<>>
    /\ returned' = NoResult
    /\ result' = NoResult
    /\ json' = NoResult
    /\ UNCHANGED <<initialized, everInit, page, text, norm, once, twice>>

\* faulty variant of initialize: the flag is set before the engine's answer
\* is looked at
initialize_sets_flag_first(engine) ==
    /\ alive
    /\ initialized' = TRUE
    /\ everInit' = (everInit \/ engine = "ok")
    /\ lastOp' = "muzloto_initialize"
    /\ calls' = <<"Init">>
    /\ returned' = (IF engine = "ok" THEN 1 ELSE 0)
    /\ result' = NoResult
    /\ json' = NoResult
    /\ UNCHANGED <<alive, page, text, norm, once, twice>>

\* faulty variant of initialize: the flag follows the last call
initialize_resets_flag(engine) ==
    /\ alive
    /\ initialized' = (engine = "ok")
    /\ everInit' = (everInit \/ engine = "ok")
    /\ lastOp' = "muzloto_initialize"
    /\ calls' = <<"Init">>
    /\ returned' = (IF engine = "ok" THEN 1 ELSE 0)
    /\ result' = NoResult
    /\ json' = NoResult
    /\ UNCHANGED <<alive, page, text, norm, once, twice>>

\* initialize: ocr->Init returns 0 ("ok"), returns non-zero ("fail") or a
\* call of the engine throws ("throw"); returned is muzloto_initialize's int
initialize(engine) ==
    /\ alive
    /\ initialized' = (initialized \/ engine = "ok")
    /\ everInit' = (everInit \/ engine = "ok")
    /\ lastOp' = "muzloto_initialize"
    /\ calls' = <<"Init">>
    /\ returned' = (IF engine = "ok" THEN 1 ELSE 0)
    /\ result' = NoResult
    /\ json' = NoResult
    /\ UNCHANGED <<alive, page, text, norm, once, twice>>

muzloto_initialize == \E engine \in {"ok", "fail", "throw"} : initialize(engine)

\* muzloto_scan_image
muzloto_scan_image ==
    /\ alive
    /\ \E image_path \in Paths, outcome \in Outcomes :
          /\ image_path = <<>> => outcome = "imread_empty"
          /\ LET scan == scan_image(initialized, image_path, outcome, Utf8(page))
             IN  /\ result' = scan.result
                 /\ calls' = scan.calls
                 /\ json' \in {muzloto_scan_image_json(scan.result, dump_checks) :
                                dump_checks \in BOOLEAN}
    /\ lastOp' = "muzloto_scan_image"
    /\ returned' = NoResult
    /\ UNCHANGED <<alive, initialized, everInit, page, text, norm, once, twice>>

Next ==
    \/ muzloto_create
    \/ muzloto_destroy
    \/ muzloto_initialize
    \/ muzloto_scan_image

Spec == Init /\ [][Next]_vars

---------------------------------------------------------------------------
(* The normalizers on their own: each is applied to an answer text, then   *)
(* to its own output.                                                      *)

\* what the scan does to a captured phone answer: extract_phone_number in
\* parse_muzloto_form, then normalize_phone in extract_answers
phone_field(t) ==
    extract_answers([phone_number |-> extract_phone_number(t)]).phone_number

Run(fn, t) ==
    IF fn = "extract_rating" THEN extract_rating(t)
    ELSE IF fn = "extract_ticket_price" THEN extract_ticket_price(t)
    ELSE IF fn = "extract_yes_no" THEN extract_yes_no(t)
    ELSE phone_field(t)

AnswerTokens == {T_Da, T_da, T_konechno, T_Net, T_net, T_ne_znayu, T_mozhet,
                 T_YES, T_No, T_check, T_plus, T_X, T_7, T_ballov, T_10, T_0,
                 T_Dorozhe, T_dostupno, T_dorogo}

TokenTexts == {Concat(ts) : ts \in SeqsUpTo(AnswerTokens, MaxTokens)}

\* phone-like texts: a country prefix, four digit groups, the separators
\* between them, some with a group too short, with text before or after
PhoneTexts ==
    {Concat(<<pre, cc, s1, g1, s2, P_123, s3, P_45, s4, g4, post>>) :
        pre \in {<<>>, P_t_8}, cc \in {P_plus7, P_8, P_7},
        s1 \in {<<>>, P_open, P_space, P_close},
        g1 \in {P_916, P_91},
        s2 \in {<<>>, P_close, P_open, P_dash_space},
        s3 \in {<<>>, P_dash, P_dot},
        s4 \in {<<>>, P_space},
        g4 \in {P_67, P_6},
        post \in {<<>>, P_0}}

ExampleTexts == {X_phone_8, X_phone_plus7, X_phone_norm, X_no_digits,
                 X_da_konechno, X_net_ne_znayu, X_7_ballov}

AnswerTexts == TokenTexts \cup PhoneTexts \cup ExampleTexts

InitNorm ==
    /\ alive = TRUE
    /\ initialized = FALSE
    /\ everInit = FALSE
    /\ page = <<>>
    /\ lastOp = "muzloto_create"
    /\ calls = <<>>
    /\ returned = NoResult
    /\ result = NoResult
    /\ json = NoResult
    /\ text \in AnswerTexts
    /\ norm = NotApplied
    /\ once = <<>>
    /\ twice = <<>>

Apply(fn) ==
    /\ norm.times = 0
    /\ norm' = [fn |-> fn, times |-> 1]
    /\ once' = Run(fn, Utf8(text))
    /\ UNCHANGED <<alive, initialized, everInit, page, lastOp, calls, returned,
                   result, json, text, twice>>

Reapply ==
    /\ norm.times = 1
    /\ norm' = [norm EXCEPT !.times = 2]
    /\ twice' = Run(norm.fn, once)
    /\ UNCHANGED <<alive, initialized, everInit, page, lastOp, calls, returned,
                   result, json, text, once>>

ApplyRating == Apply("extract_rating")
ApplyTicketPrice == Apply("extract_ticket_price")
ApplyYesNo == Apply("extract_yes_no")
ApplyPhone == Apply("phone_field")

NextNorm ==
    \/ ApplyRating
    \/ ApplyTicketPrice
    \/ ApplyYesNo
    \/ ApplyPhone
    \/ Reapply

SpecNorm == InitNorm /\ [][NextNorm]_vars

---------------------------------------------------------------------------
(* Properties.                                                             *)

Scanned == lastOp = "muzloto_scan_image"

AllCalls == <<"imread", "preprocess_image", "SetImage", "GetUTF8Text">>

\* C1: a scan on an instance no initialize call of which has returned true
\* returns a failure: success is false, the error message is not empty, the
\* image was not loaded and the OCR engine not run, and raw_text, the fields
\* list and every answer field are empty.
C1_ScanBeforeInitializeFails ==
    (Scanned /\ ~everInit) =>
        /\ result.success = FALSE
        /\ result.error_message # <<>>
        /\ calls = <<>>
        /\ result.raw_text = <<>>
        /\ result.fields = <<>>
        /\ \A f \in FieldIds : result[f] = <<>>
        /\ json.success = FALSE
        /\ json.error_message # <<>>
        /\ json.raw_text = <<>>
        /\ json.fields = <<>>
        /\ \A f \in FieldIds : json[f] = <<>>

C1_Witness ==
    /\ Scanned
    /\ ~everInit
    /\ result.error_message = Utf8(MsgNotInitialized)

\* the two outcomes of a scan
TwoOutcomes(r) ==
    \/ /\ r.success = TRUE
       /\ r.error_message = <<>>
       /\ FieldIds \subseteq DOMAIN r
       /\ "raw_text" \in DOMAIN r
    \/ /\ r.success = FALSE
       /\ r.error_message # <<>>

\* C2: every result a scan returns, as a ScanResult and as the JSON document,
\* is either a success with the 17 answer fields and raw_text present and no
\* error message, or a failure with a non-empty error message.
C2_ScanReturnsOneOfTwoOutcomes ==
    Scanned => TwoOutcomes(result) /\ TwoOutcomes(json)

C2_Witness ==
    /\ Scanned
    /\ json.success = TRUE
    /\ json.fields # <<>>
    /\ json.date # <<>>

\* the label of a line, as the text of its question
LabelOf(line) == field_mapping[MatchLabel(line)].question

\* C3: the answer of a label line stops at the next question. When the line
\* after a label line holds a label itself, the first line's field gets the
\* empty answer and the next label line is recorded as its own question,
\* right behind it; the two documented forms parse as documented.
C3_AnswerStopsAtNextQuestion ==
    (Scanned /\ result.success) =>
        LET ls == GetLines(result.raw_text)
        IN  /\ ls = <<Utf8(Q_date), Utf8(A_date), Utf8(Q_table_number), Utf8(A_14)>>
                => /\ result.date = Utf8(A_date)
                   /\ result.table_number = Utf8(A_14)
            /\ ls = <<Utf8(Q_date), Utf8(Q_table_number), Utf8(A_14)>>
                => /\ result.date = <<>>
                   /\ result.table_number = Utf8(A_14)
            /\ \A i \in 1..(Len(ls) - 1) :
                   (MatchLabel(ls[i]) # 0 /\ MatchLabel(ls[i + 1]) # 0) =>
                       \E k \in 1..(Len(result.fields) - 1) :
                           /\ result.fields[k].name = LabelOf(ls[i])
                           /\ result.fields[k].value = <<>>
                           /\ result.fields[k + 1].name = LabelOf(ls[i + 1])

\* the text cut to its first n characters
FirstChars(cps, n) == SubSeq(cps, 1, IF Len(cps) < n THEN Len(cps) ELSE n)

\* C8: raw_text of the JSON document is the recognized text cut to its first
\* 500 characters, also for text of multi-byte characters.
C8_RawTextIsFirst500Characters ==
    (Scanned /\ result.raw_text = Utf8(page) /\ "raw_text" \in DOMAIN json) =>
        json.raw_text = Utf8(FirstChars(page, RawTextLimit))

\* C9: once an initialize call has returned true the instance stays
\* initialized, whatever is called later (a failing initialize included), and
\* a scan does not fail as not initialized: it loads the image, and a scan
\* that succeeds has run the OCR engine.
C9_InitializedForLife ==
    /\ everInit => initialized
    /\ (Scanned /\ everInit) =>
           /\ result.error_message # Utf8(MsgNotInitialized)
           /\ calls # <<>>
           /\ calls[1] = "imread"
           /\ result.success => calls = AllCalls

C9_Witness ==
    /\ lastOp = "muzloto_initialize"
    /\ returned = 0
    /\ everInit
    /\ initialized

\* the lines that hold a label, in line order
LabelLines(ls) == {i \in 1..Len(ls) : MatchLabel(ls[i]) # 0}
NthLabelLine(ls, k) ==
    CHOOSE i \in LabelLines(ls) :
        Cardinality({j \in LabelLines(ls) : j <= i}) = k

\* what the scan makes of the answer captured for a field
Typed(field_id, answer) ==
    IF field_id = "phone_number" THEN phone_field(answer)
    ELSE Normalize(field_id, answer)

\* C10: the fields list holds one FieldResult of confidence 0.9 per label
\* match, in line order, and each typed field is the normalized answer of the
\* last FieldResult of its label, or empty when its label never matched.
C10_FieldsFollowLabelMatches ==
    (Scanned /\ result.success) =>
        LET ls == GetLines(result.raw_text)
            fs == result.fields
            Of(f) == {k \in 1..Len(fs) :
                         \E m \in 1..Len(field_mapping) :
                             /\ field_mapping[m].field_id = f
                             /\ field_mapping[m].question = fs[k].name}
        IN  /\ Len(fs) = Cardinality(LabelLines(ls))
            /\ \A k \in 1..Len(fs) :
                   /\ fs[k].confidence = "0.9"
                   /\ k <= Cardinality(LabelLines(ls))
                          => fs[k].name = LabelOf(ls[NthLabelLine(ls, k)])
            /\ \A f \in FieldIds :
                   result[f] = IF Of(f) = {} THEN <<>>
                               ELSE Typed(f, fs[CHOOSE k \in Of(f) :
                                                   \A n \in Of(f) : n <= k].value)

---------------------------------------------------------------------------
(* Properties of the normalizers.                                          *)

Applied(fn) == norm.fn = fn /\ norm.times >= 1

\* lower case of a character: Latin and Cyrillic capitals
Fold(cp) ==
    IF cp \in 65..90 THEN cp + 32
    ELSE IF cp \in 1040..1071 THEN cp + 32
    ELSE IF cp = 1025 THEN 1105
    ELSE cp

\* the text holds one of the tokens, in any letter case
HoldsAny(t, tokens) ==
    \E tok \in tokens : Contains([i \in 1..Len(t) |-> Fold(t[i])], tok)

\* C4: yes/no normalization is a case-insensitive containment check: a text
\* that holds one of "да", "yes", "✓", "+", "v", "x" in any letter case
\* becomes "Да", else a text that holds "нет" or "no" becomes "Нет", else the
\* text is returned unchanged.
C4_YesNoIsCaseInsensitive ==
    Applied("extract_yes_no") =>
        once = Utf8(IF HoldsAny(text, {L_da, L_yes, L_check, L_plus, L_v, L_x})
                    THEN L_Da
                    ELSE IF HoldsAny(text, {L_net, L_no}) THEN L_Net
                    ELSE text)

\* the text holds a phone number: +7 or 8, then groups of 3, 3, 2 and 2
\* digits, each group with or without a separator before it
HoldsPhone(t) ==
    \E p \in 1..Len(t), c \in {1, 2}, o \in [1..4 -> {0, 1}] :
        LET s1 == p + c
            g1 == s1 + o[1]
            s2 == g1 + 3
            g2 == s2 + o[2]
            s3 == g2 + 3
            g3 == s3 + o[3]
            s4 == g3 + 2
            g4 == s4 + o[4]
            Digits(from, n) == \A i \in from..(from + n - 1) : t[i] \in Digit
        IN  /\ g4 + 1 <= Len(t)
            /\ IF c = 2 THEN t[p] = 43 /\ t[p + 1] = 55 ELSE t[p] = 56
            /\ o[1] = 1 => t[s1] \in Space \cup {45, 40}
            /\ o[2] = 1 => t[s2] \in Space \cup {45, 41}
            /\ o[3] = 1 => t[s3] \in Space \cup {45}
            /\ o[4] = 1 => t[s4] \in Space \cup {45}
            /\ Digits(g1, 3) /\ Digits(g2, 3) /\ Digits(g3, 2) /\ Digits(g4, 2)

\* "+7" and exactly 10 digits
IsPlus7Number(s) ==
    /\ Len(s) = 12
    /\ s[1] = 43
    /\ s[2] = 55
    /\ \A i \in 3..12 : s[i] \in Digit

\* C5: the phone number of the scan result is empty when the captured text
\* holds no phone pattern and otherwise "+7" followed by exactly 10 digits;
\* "8 916 123 45 67" and "+7(916)123-45-67" give "+79161234567", a text
\* without digits gives the empty string.
C5_PhoneIsEmptyOrPlus7Number ==
    Applied("phone_field") =>
        /\ IF HoldsPhone(text) THEN IsPlus7Number(once) ELSE once = <<>>
        /\ text \in {X_phone_8, X_phone_plus7} => once = Utf8(X_phone_norm)
        /\ (\A i \in 1..Len(text) : text[i] \notin Digit) => once = <<>>

C5_Witness ==
    /\ Applied("phone_field")
    /\ text = X_phone_8
    /\ once = Utf8(X_phone_norm)

\* C6: rating normalization returns the first "10" or single digit 1-9 in the
\* text, so one of "1" .. "10", and the text unchanged when it holds no digit
\* 1-9; "7 баллов" gives "7".
C6_RatingIsFirstNumber ==
    Applied("extract_rating") =>
        LET ds == {i \in 1..Len(text) : text[i] \in 49..57}
            p == Min(ds)
        IN  /\ IF ds = {} THEN once = Utf8(text)
               ELSE IF text[p] = 49 /\ p < Len(text) /\ text[p + 1] = 48
                    THEN once = <<49, 48>>
               ELSE once = <<text[p]>>
            /\ ds # {} => once \in {<<d>> : d \in 49..57} \cup {<<49, 48>>}
            /\ text = X_7_ballov => once = <<55>>

C6_Witness ==
    /\ Applied("extract_rating")
    /\ text = X_7_ballov
    /\ once = <<55>>

\* C7: each normalizer is idempotent: applied to its own output it returns
\* that output.
C7_NormalizersAreIdempotent ==
    norm.times = 2 => twice = once

C7_Witness ==
    /\ norm.times = 2
    /\ norm.fn = "phone_field"
    /\ once # <<>>
    /\ once # Utf8(text)
    /\ twice = once
============================================================================
